---- MODULE Spec2Model ----
(***************************************************************************)
(* Model of src/analyzer.py (LogAnalyzer): the per-line triage of access   *)
(* log records, the request classifier, the per-day container and the     *)
(* final report.  Text is kept as text: requests, timestamps, status       *)
(* fields and date keys are strings and the string operations of the      *)
(* source (split, search, int, strptime, strftime, sorted) are modelled   *)
(* on their characters.                                                    *)
(*                                                                         *)
(* The weekday names of JAPANESE_WEEKDAY_NAMES are written in romaji       *)
(* (nichiyoubi = Sunday, getsuyoubi = Monday, kayoubi = Tuesday,           *)
(* suiyoubi = Wednesday, mokuyoubi = Thursday, kinyoubi = Friday,          *)
(* doyoubi = Saturday) because module text is ASCII.                       *)
(***************************************************************************)
EXTENDS Integers, Sequences, FiniteSets, TLC

VARIABLES server_type, collect_invalid, month, file_idx, processed,
          container, stat_body, json_writes, invalid, unusual, classified, pc

vars == <<server_type, collect_invalid, month, file_idx, processed,
          container, stat_body, json_writes, invalid, unusual, classified, pc>>

(***************************************************************************)
(* Bounds and input sets                                                   *)
(***************************************************************************)
MaxLines == 2

\* ------------------------------------------------------------------------
\* Text helpers
\* ------------------------------------------------------------------------
Char(s, i) == SubSeq(s, i, i)

Digits == <<"0", "1", "2", "3", "4", "5", "6", "7", "8", "9">>

IsDigit(c) == \E k \in 1..10 : Digits[k] = c

DigitVal(c) == (CHOOSE k \in 1..10 : Digits[k] = c) - 1

IsDigits(s) == Len(s) > 0 /\ \A i \in 1..Len(s) : IsDigit(Char(s, i))

RECURSIVE int(_)
\* Python int() of a non-empty string of decimal digits
int(s) == IF Len(s) = 0 THEN 0
          ELSE 10 * int(SubSeq(s, 1, Len(s) - 1)) + DigitVal(Char(s, Len(s)))

\* s[i:] of Python with a 1-based i
Tail_from(s, i) == IF i > Len(s) THEN "" ELSE SubSeq(s, i, Len(s))

\* s[:i-1] of Python with a 1-based i
Head_to(s, i) == IF i <= 1 THEN "" ELSE SubSeq(s, 1, i - 1)

HasChar(s, c) == \E i \in 1..Len(s) : Char(s, i) = c

FirstIndex(s, c) == CHOOSE i \in 1..Len(s) :
                        Char(s, i) = c /\ \A j \in 1..(i - 1) : Char(s, j) # c

RECURSIVE split(_, _)
\* str.split(sep) with a one-character separator: empty pieces are kept
split(s, sep) ==
    IF ~HasChar(s, sep) THEN <<s>>
    ELSE LET i == FirstIndex(s, sep)
         IN  <<Head_to(s, i)>> \o split(Tail_from(s, i + 1), sep)

\* re.search(pattern, text) for a pattern without metacharacters: the
\* pattern occurs somewhere in the text
re_search(pattern, text) ==
    \E i \in 1..(Len(text) - Len(pattern) + 1) :
        SubSeq(text, i, i + Len(pattern) - 1) = pattern

RECURSIVE replace(_, _, _)
\* str.replace(old, new) for one-character old
replace(s, old, new) ==
    IF Len(s) = 0 THEN ""
    ELSE (IF Char(s, 1) = old THEN new ELSE Char(s, 1))
             \o replace(Tail_from(s, 2), old, new)

InSeq(x, seq) == \E i \in 1..Len(seq) : seq[i] = x

\* ------------------------------------------------------------------------
\* Module tables
\* ------------------------------------------------------------------------
\* The keys of the two profiles differ: sp has route_patterns,
\* diagram_patterns, fare_patterns; pc has route_pattern, diagram_pattern,
\* fare_pattern.  The line 'pattern' itself is modelled by parse_group.
LOG_REGULAR_EXPRESSIONS ==
    [sp |-> [index_pattern    |-> <<"/">>,
             route_patterns   |-> <<"/schedule/m_search",
                                    "/schedule/m_search_detail",
                                    "/mobilet">>,
             diagram_patterns |-> <<"/schedule/m_eki_diagram_k",
                                    "/schedule/m_eki_diagram_n">>,
             fare_patterns    |-> <<"/fare/fare_index">>],
     pc |-> [index_pattern    |-> <<"/">>,
             route_pattern    |-> <<"route", "nsresult">>,
             diagram_pattern  |-> <<"diagram">>,
             fare_pattern     |-> <<"fare">>]]

\* dict.get(key): the value, or None (is_none) when the key is missing
get(dict, key) == IF key \in DOMAIN dict
                  THEN [is_none |-> FALSE, value |-> dict[key]]
                  ELSE [is_none |-> TRUE, value |-> <<>>]

JAPANESE_WEEKDAY_NAMES ==
    [i \in 0..6 |-> <<"nichiyoubi", "getsuyoubi", "kayoubi", "suiyoubi",
                      "mokuyoubi", "kinyoubi", "doyoubi">>[i + 1]]

ALLOWED_SERVER_TYPES == {"pc", "sp"}

\* self.regulars, LOG_REGULAR_EXPRESSIONS.get('fukuoka').get(server_type)
regulars(st) == LOG_REGULAR_EXPRESSIONS[st]

\* ------------------------------------------------------------------------
\* datetime: strptime('%d/%b/%Y:%H:%M:%S'), strftime('%Y/%m/%d'), weekday()
\* ------------------------------------------------------------------------
MonthAbbr == <<"Jan", "Feb", "Mar", "Apr", "May", "Jun",
               "Jul", "Aug", "Sep", "Oct", "Nov", "Dec">>

is_leap(y) == y % 4 = 0 /\ (y % 100 # 0 \/ y % 400 = 0)

days_in_month(y, m) ==
    IF m = 2 THEN (IF is_leap(y) THEN 29 ELSE 28)
    ELSE IF m \in {4, 6, 9, 11} THEN 30 ELSE 31

\* The result of a failed parse (strptime raises ValueError)
ValueError == [ok |-> FALSE, year |-> 0, month |-> 0, day |-> 0]

\* strptime on the two-digit, capitalised layout DD/Mon/YYYY:HH:MM:SS that
\* the input timestamps use; anything else does not match the format
strptime(s) ==
    IF Len(s) # 20 THEN ValueError
    ELSE LET dd == SubSeq(s, 1, 2)
             b  == SubSeq(s, 4, 6)
             yy == SubSeq(s, 8, 11)
             hh == SubSeq(s, 13, 14)
             mi == SubSeq(s, 16, 17)
             ss == SubSeq(s, 19, 20)
         IN  IF ~(/\ Char(s, 3) = "/" /\ Char(s, 7) = "/"
                  /\ Char(s, 12) = ":" /\ Char(s, 15) = ":"
                  /\ Char(s, 18) = ":"
                  /\ IsDigits(dd) /\ IsDigits(yy) /\ IsDigits(hh)
                  /\ IsDigits(mi) /\ IsDigits(ss)
                  /\ InSeq(b, MonthAbbr))
             THEN ValueError
             ELSE LET m == CHOOSE k \in 1..12 : MonthAbbr[k] = b
                  IN  IF /\ int(yy) >= 1
                         /\ int(dd) >= 1 /\ int(dd) <= days_in_month(int(yy), m)
                         /\ int(hh) <= 23 /\ int(mi) <= 59 /\ int(ss) <= 59
                      THEN [ok |-> TRUE, year |-> int(yy), month |-> m,
                            day |-> int(dd)]
                      ELSE ValueError

\* '%02d' and '%04d'
zero_pad(n, width) ==
    LET t == ToString(n)
    IN  IF Len(t) >= width THEN t
        ELSE SubSeq("0000", 1, width - Len(t)) \o t

\* date.strftime('%Y/%m/%d')
strftime(d) == zero_pad(d.year, 4) \o "/" \o zero_pad(d.month, 2)
                   \o "/" \o zero_pad(d.day, 2)

days_before_year(y) ==
    LET y1 == y - 1
    IN  y1 * 365 + (y1 \div 4) - (y1 \div 100) + (y1 \div 400)

RECURSIVE days_before_month(_, _)
days_before_month(y, m) ==
    IF m = 1 THEN 0
    ELSE days_before_month(y, m - 1) + days_in_month(y, m - 1)

toordinal(d) == days_before_year(d.year) + days_before_month(d.year, d.month)
                    + d.day

\* date.weekday(): Monday is 0, Sunday is 6
weekday(d) == (toordinal(d) + 6) % 7

\* ------------------------------------------------------------------------
\* Input: log files and their lines
\* ------------------------------------------------------------------------
\* file_list of analyzer(), in the order os.walk yields it
file_list == <<"logs/a.log", "logs/b.log">>

Cwd == "/srv/loganalyzer"

\* os.path.abspath of a relative path
abspath(file_name) == Cwd \o "/" \o file_name

TargetMonths == {2}

\* A line in the sp layout, in the pc layout (identity, user id and response
\* time added), of some other layout, or bytes that are not valid UTF-8
SpLine(dt, req, st) ==
    [shape |-> "sp", datetime |-> dt, request |-> req, status |-> st,
     text |-> ""]
PcLine(dt, req, st) ==
    [shape |-> "pc", datetime |-> dt, request |-> req, status |-> st,
     text |-> ""]
OtherLine(t) ==
    [shape |-> "other", datetime |-> "", request |-> "", status |-> "",
     text |-> t]
BytesLine ==
    [shape |-> "bytes", datetime |-> "", request |-> "", status |-> "",
     text |-> ""]

Feb09 == "09/Feb/2024:07:15:00 +0900"
Feb10 == "10/Feb/2024:08:00:00 +0900"
Feb17 == "17/Feb/2024:23:59:59 +0900"
Mar10 == "10/Mar/2024:08:00:00 +0900"
Feb30 == "30/Feb/2024:08:00:00 +0900"

Lines ==
    { SpLine(Feb10, "GET / HTTP/1.1", "200"),
      SpLine(Feb17, "GET /mobilet/fare/fare_index HTTP/1.1", "200"),
      SpLine(Feb09, "GET /schedule/m_eki_diagram_k?s=1 HTTP/1.1", "200"),
      SpLine(Feb10, "GET /css/site.css HTTP/1.1", "200"),
      SpLine(Feb10, "GET ", "200"),
      SpLine(Feb10, "\\x03", "200"),
      SpLine(Feb10, "GET / HTTP/1.1", "404"),
      SpLine(Mar10, "GET / HTTP/1.1", "200"),
      SpLine(Feb30, "GET / HTTP/1.1", "200"),
      PcLine(Feb10, "GET /route/fare HTTP/1.1", "200"),
      OtherLine("\\x16\\x03\\x01"),
      BytesLine }

\* The text readline().decode('utf-8') yields for a decodable line
log_record(rec) ==
    IF rec.shape = "sp"
    THEN "203.0.113.5 - - [" \o rec.datetime \o "] \"" \o rec.request
             \o "\" " \o rec.status \o " 512 \"-\" \"UA\"\n"
    ELSE IF rec.shape = "pc"
    THEN "203.0.113.5 - - [" \o rec.datetime \o "] \"" \o rec.request
             \o "\" " \o rec.status \o " 512 33 \"-\" \"UA\"\n"
    ELSE rec.text \o "\n"

\* ------------------------------------------------------------------------
\* LogAnalyzer methods
\* ------------------------------------------------------------------------
\* parse_group: the profile's line pattern matches a line of the profile's
\* layout whose captured fields satisfy the pattern's character classes
\* ([^\[\]]+ for datetime, [^"]+ for request, \d+ for status)
parse_group(st, rec) ==
    /\ rec.shape = st
    /\ Len(rec.datetime) > 0
    /\ ~HasChar(rec.datetime, "[") /\ ~HasChar(rec.datetime, "]")
    /\ Len(rec.request) > 0 /\ ~HasChar(rec.request, "\"")
    /\ IsDigits(rec.status)

\* check_date: only AttributeError is caught, so the ValueError of a failed
\* strptime leaves the method (raised)
check_date(mon, rec) ==
    LET date_time == split(rec.datetime, " ")[1]
        parsed    == strptime(date_time)
    IN  IF ~parsed.ok
        THEN [raised |-> TRUE, is_current_month |-> FALSE, date_time |-> date_time]
        ELSE [raised |-> FALSE, is_current_month |-> (parsed.month = mon),
              date_time |-> date_time]

\* Outcomes of parse_request: a tuple of four counts, None, or a TypeError
\* raised by iterating the None that .get() yields for a missing key
ReturnsNone == [kind |-> "None", counts |-> <<>>]
TypeError == [kind |-> "TypeError", counts |-> <<>>]

\* Mutant of url_of: a request without a second part yields an empty url
url_of_lenient(request) ==
    LET parts == split(request, " ")
    IN  [index_error |-> FALSE,
         url |-> IF Len(parts) < 2 THEN "" ELSE parts[2]]

\* request.split(' ')[1], or the IndexError when there is no second part
url_of(request) ==
    LET parts == split(request, " ")
    IN  IF Len(parts) < 2 THEN [index_error |-> TRUE, url |-> ""]
        ELSE [index_error |-> FALSE, url |-> parts[2]]

any_search(patterns, url) ==
    \E i \in 1..Len(patterns) : re_search(patterns[i], url)

parse_request(st, request) ==
    LET u == url_of(request)
    IN  IF u.index_error THEN ReturnsNone
        ELSE
        LET url     == u.url
            index   == get(regulars(st), "index_pattern")
            route   == get(regulars(st), "route_patterns")
            diagram == get(regulars(st), "diagram_patterns")
            fare    == get(regulars(st), "fare_patterns")
        IN  IF index.is_none \/ route.is_none \/ diagram.is_none \/ fare.is_none
            THEN TypeError
            ELSE
            LET route_count   == IF any_search(route.value, url) THEN 1 ELSE 0
                diagram_count == IF any_search(diagram.value, url) THEN 1 ELSE 0
                fare_count    == IF any_search(fare.value, url) THEN 1 ELSE 0
                effective_count ==
                    IF \/ InSeq(url, index.value)
                       \/ route_count = 1 \/ diagram_count = 1 \/ fare_count = 1
                    THEN 1 ELSE 0
            IN  [kind |-> "tuple",
                 counts |-> <<effective_count, route_count, diagram_count,
                              fare_count>>]

\* Mutant of add_counts: the new counts replace the running totals
add_counts_overwrite(bucket, counts) ==
    <<bucket[1], bucket[2], counts[1], counts[2], counts[3], counts[4]>>

\* Mutant of add_counts: the effective count is added to every total
add_counts_effective_only(bucket, counts) ==
    <<bucket[1], bucket[2], bucket[3] + counts[1], bucket[4] + counts[1],
      bucket[5] + counts[1], bucket[6] + counts[1]>>

\* The four += of store_into_container on an existing bucket
add_counts(bucket, counts) ==
    <<bucket[1], bucket[2], bucket[3] + counts[1], bucket[4] + counts[2],
      bucket[5] + counts[3], bucket[6] + counts[4]>>

\* store_into_container: a bucket is the list
\* [date_str, weekday_name, effective, route, diagram, fare]
store_into_container(cont, st, date_time, request) ==
    LET date         == strptime(date_time)
        date_str     == strftime(date)
        weekday_name == JAPANESE_WEEKDAY_NAMES[weekday(date)]
        res          == parse_request(st, request)
    IN  IF res.kind # "tuple" THEN cont
        ELSE IF date_str \notin DOMAIN cont
        THEN cont @@ (date_str :> <<date_str, weekday_name, res.counts[1],
                                    res.counts[2], res.counts[3], res.counts[4]>>)
        ELSE [cont EXCEPT ![date_str] = add_counts(@, res.counts)]

\* Mutant of get_invalid: the line is written whatever collect_invalid is
get_invalid_always(ci, inv, file_name, rec) ==
    Append(inv, replace(abspath(file_name), "\\", "/") \o "\n"
                    \o log_record(rec) \o "\n")

\* get_invalid: the text appended to invalid.txt, if anything
get_invalid(ci, inv, file_name, rec) ==
    IF ci
    THEN Append(inv, replace(abspath(file_name), "\\", "/") \o "\n"
                         \o log_record(rec) \o "\n")
    ELSE inv

\* ------------------------------------------------------------------------
\* Report
\* ------------------------------------------------------------------------
\* Code point of the characters a date key is made of
ord(c) == IF c = "/" THEN 47 ELSE 48 + DigitVal(c)

RECURSIVE str_lt(_, _)
\* a < b on strings: lexicographic by code point
str_lt(a, b) ==
    IF Len(b) = 0 THEN FALSE
    ELSE IF Len(a) = 0 THEN TRUE
    ELSE IF Char(a, 1) = Char(b, 1)
         THEN str_lt(Tail_from(a, 2), Tail_from(b, 2))
         ELSE ord(Char(a, 1)) < ord(Char(b, 1))

\* a < b on two buckets: lists compare by their first differing element,
\* and the date strings of two buckets of one container always differ
list_lt(a, b) == str_lt(a[1], b[1])

RECURSIVE sorted(_)
\* sorted() of a set of buckets, ascending
sorted(S) ==
    IF S = {} THEN <<>>
    ELSE LET m == CHOOSE x \in S : \A y \in S \ {x} : list_lt(x, y)
         IN  <<m>> \o sorted(S \ {m})

values(cont) == {cont[k] : k \in DOMAIN cont}

RECURSIVE sum(_)
sum(list) == IF Len(list) = 0 THEN 0 ELSE list[1] + sum(Tail(list))

\* d[key] = value on a dict kept as the sequence of its items in insertion
\* order
dict_set(items, key, value) ==
    IF \E i \in 1..Len(items) : items[i][1] = key
    THEN [i \in 1..Len(items) |->
             IF items[i][1] = key THEN <<key, value>> ELSE items[i]]
    ELSE Append(items, <<key, value>>)

\* The accumulators of get_fukuoka_result before its loop
empty_acc ==
    [weekday_stat |-> [n \in {JAPANESE_WEEKDAY_NAMES[i] : i \in 0..6} |-> 0],
     daily        |-> <<>>,
     date_list    |-> <<>>,
     total_list   |-> <<>>,
     route_list   |-> <<>>,
     diagram_list |-> <<>>,
     fare_list    |-> <<>>]

\* Mutant of absorb_record: the weekday table is fed the route count
absorb_record_route(acc, daily_record) ==
    [weekday_stat |-> [acc.weekday_stat EXCEPT
                          ![daily_record[2]] = @ + daily_record[4]],
     daily        |-> dict_set(acc.daily, daily_record[1], daily_record[3]),
     date_list    |-> Append(acc.date_list, daily_record[1]),
     total_list   |-> Append(acc.total_list, daily_record[3]),
     route_list   |-> Append(acc.route_list, daily_record[4]),
     diagram_list |-> Append(acc.diagram_list, daily_record[5]),
     fare_list    |-> Append(acc.fare_list, daily_record[6])]

\* One iteration of the loop of get_fukuoka_result
absorb_record(acc, daily_record) ==
    LET date_str     == daily_record[1]
        weekday_name == daily_record[2]
        count        == daily_record[3]
    IN  [weekday_stat |-> [acc.weekday_stat EXCEPT ![weekday_name] = @ + count],
         daily        |-> dict_set(acc.daily, date_str, count),
         date_list    |-> Append(acc.date_list, date_str),
         total_list   |-> Append(acc.total_list, count),
         route_list   |-> Append(acc.route_list, daily_record[4]),
         diagram_list |-> Append(acc.diagram_list, daily_record[5]),
         fare_list    |-> Append(acc.fare_list, daily_record[6])]

RECURSIVE result_loop(_, _)
result_loop(acc, records) ==
    IF Len(records) = 0 THEN acc
    ELSE result_loop(absorb_record(acc, records[1]), Tail(records))

\* get_fukuoka_result: the stat_body that is dumped as JSON
get_fukuoka_result(cont) ==
    LET acc == result_loop(empty_acc, sorted(values(cont)))
    IN  [total_stat   |-> sum(acc.total_list),
         route_stat   |-> sum(acc.route_list),
         diagram_stat |-> sum(acc.diagram_list),
         fare_stat    |-> sum(acc.fare_list),
         weekday_stat |-> acc.weekday_stat,
         daily_stat   |-> acc.daily]

\* self.stat_body before get_fukuoka_result has run
empty_stat_body ==
    [total_stat |-> 0, route_stat |-> 0, diagram_stat |-> 0, fare_stat |-> 0,
     weekday_stat |-> <<>>, daily_stat |-> <<>>]

\* ------------------------------------------------------------------------
\* The body of the line loop of analyzer()
\* ------------------------------------------------------------------------
NotCalled == [kind |-> "not_called", counts |-> <<>>]

\* Mutant of status_ok: every status passes
status_ok_any(rec) == IsDigits(rec.status)

\* int(result.group('status')) == 200
status_ok(rec) == int(rec.status) = 200

\* The effect of one line on the analyzer: s is the record of the fields a
\* line can change.  An exception that leaves analyzer() (UnicodeDecodeError
\* of decode, ValueError of check_date) ends the run.  result.group('request')
\* cannot raise AttributeError on a match of the line pattern, so the branch
\* that calls get_unusual is never taken and unusual stays as it is.
analyzer_body(s, st, ci, mon, file_name, rec) ==
    IF rec.shape = "bytes"
    THEN [s EXCEPT !.pc = "aborted", !.classified = NotCalled]
    ELSE IF ~parse_group(st, rec)
    THEN [s EXCEPT !.invalid = get_invalid(ci, s.invalid, file_name, rec),
                   !.classified = NotCalled]
    ELSE IF ~status_ok(rec)
    THEN [s EXCEPT !.classified = NotCalled]
    ELSE LET cd == check_date(mon, rec)
         IN  IF cd.raised
             THEN [s EXCEPT !.pc = "aborted", !.classified = NotCalled]
             ELSE IF ~(cd.is_current_month /\ Len(cd.date_time) > 0)
             THEN [s EXCEPT !.classified = NotCalled]
             ELSE [s EXCEPT
                      !.container = store_into_container(s.container, st,
                                        cd.date_time, rec.request),
                      !.classified = parse_request(st, rec.request)]

\* ------------------------------------------------------------------------
\* State machine
\* ------------------------------------------------------------------------
Init ==
    /\ server_type \in ALLOWED_SERVER_TYPES
    /\ collect_invalid \in BOOLEAN
    /\ month \in TargetMonths
    /\ file_idx = 1
    /\ processed = <<>>
    /\ container = <<>>
    /\ stat_body = empty_stat_body
    /\ json_writes = 0
    /\ invalid = <<>>
    /\ unusual = <<>>
    /\ classified = NotCalled
    /\ pc = "running"

\* readline() yields another line of the current file
analyzer_line(rec) ==
    /\ pc = "running"
    /\ Len(processed) < MaxLines
    /\ LET s == analyzer_body([container |-> container, invalid |-> invalid,
                               unusual |-> unusual, classified |-> classified,
                               pc |-> pc],
                              server_type, collect_invalid, month,
                              file_list[file_idx], rec)
       IN  /\ container' = s.container
           /\ invalid' = s.invalid
           /\ unusual' = s.unusual
           /\ classified' = s.classified
           /\ pc' = s.pc
    /\ processed' = Append(processed, [file |-> file_list[file_idx], rec |-> rec])
    /\ UNCHANGED <<server_type, collect_invalid, month, file_idx, stat_body,
                   json_writes>>

\* readline() yields '' and another file follows
next_file ==
    /\ pc = "running"
    /\ file_idx < Len(file_list)
    /\ file_idx' = file_idx + 1
    /\ UNCHANGED <<server_type, collect_invalid, month, processed, container,
                   stat_body, json_writes, invalid, unusual, classified, pc>>

\* readline() yields '' in the last file: get_fukuoka_result writes the report
analyzer_finish ==
    /\ pc = "running"
    /\ file_idx = Len(file_list)
    /\ stat_body' = get_fukuoka_result(container)
    /\ json_writes' = json_writes + 1
    /\ pc' = "done"
    /\ UNCHANGED <<server_type, collect_invalid, month, file_idx, processed,
                   container, invalid, unusual, classified>>

Next ==
    \/ \E rec \in Lines : analyzer_line(rec)
    \/ next_file
    \/ analyzer_finish

Spec == Init /\ [][Next]_vars

TypeOK ==
    /\ pc \in {"running", "done", "aborted"}
    /\ file_idx \in 1..Len(file_list)
    /\ Len(processed) <= MaxLines
    /\ json_writes \in 0..1

\* ------------------------------------------------------------------------
\* Vocabulary of the properties
\* ------------------------------------------------------------------------
\* A step that read one more line, and the line and file it read
ReadLine == Len(processed') = Len(processed) + 1
CurRec == processed'[Len(processed')].rec
CurFile == processed'[Len(processed')].file

Decodable(rec) == rec.shape # "bytes"

\* The line pattern of the run's profile matches the line
Matches(rec) == Decodable(rec) /\ parse_group(server_type, rec)

DateOf(rec) == strptime(split(rec.datetime, " ")[1])

\* Status 200, a timestamp that parses, the target month
InMonth200(rec) ==
    /\ Matches(rec)
    /\ int(rec.status) = 200
    /\ DateOf(rec).ok
    /\ DateOf(rec).month = month

\* The line reaches the aggregation: the request has a second part when split
\* on single spaces
Accepted(rec) == InMonth200(rec) /\ Len(split(rec.request, " ")) >= 2

CanonicalDate(rec) == strftime(DateOf(rec))

IsSpace(c) == c \in {" ", "\t", "\n", "\r", "\f"}

RECURSIVE ws_tokens(_)
\* The whitespace-delimited tokens of a text: the maximal runs of
\* non-whitespace characters
ws_tokens(s) ==
    IF Len(s) = 0 THEN <<>>
    ELSE IF IsSpace(Char(s, 1)) THEN ws_tokens(Tail_from(s, 2))
    ELSE IF \A i \in 1..Len(s) : ~IsSpace(Char(s, i)) THEN <<s>>
    ELSE LET i == CHOOSE k \in 1..Len(s) :
                      IsSpace(Char(s, k)) /\ \A j \in 1..(k - 1) : ~IsSpace(Char(s, j))
         IN  <<Head_to(s, i)>> \o ws_tokens(Tail_from(s, i))

\* The trigger lists of a profile, whatever the spelling of their keys
TriggersOf(st, singular, plural) ==
    IF plural \in DOMAIN regulars(st) THEN regulars(st)[plural]
    ELSE regulars(st)[singular]

Flag(b) == IF b THEN 1 ELSE 0

\* The classification the trigger lists of a profile prescribe for a path
ExpectedTuple(st, path) ==
    LET r == Flag(any_search(TriggersOf(st, "route_pattern", "route_patterns"), path))
        d == Flag(any_search(TriggersOf(st, "diagram_pattern", "diagram_patterns"), path))
        f == Flag(any_search(TriggersOf(st, "fare_pattern", "fare_patterns"), path))
        e == Flag(InSeq(path, regulars(st).index_pattern) \/ r + d + f > 0)
    IN  <<e, r, d, f>>

LastRec == processed[Len(processed)].rec

\* ------------------------------------------------------------------------
\* C1
\* ------------------------------------------------------------------------
\* C1: whenever parse_request has been called (under either profile) on a
\* request whose second whitespace-delimited token is PATH, it returned the
\* tuple (effective, route, diagram, fare) that the profile's index paths and
\* route, diagram and fare triggers prescribe for PATH.
C1_ParseRequestClassifies ==
    (classified.kind # "not_called" /\ Len(ws_tokens(LastRec.request)) >= 2)
        => classified = [kind |-> "tuple",
                         counts |-> ExpectedTuple(server_type,
                                        ws_tokens(LastRec.request)[2])]

\* ------------------------------------------------------------------------
\* C2
\* ------------------------------------------------------------------------
\* C2: a step that reads a line which matches the line pattern and whose
\* status is not 200 leaves the container, the invalid sink and the unusual
\* sink as they were.
C2_StatusNot200LeavesNoTrace ==
    [][(ReadLine /\ Matches(CurRec) /\ int(CurRec.status) # 200)
          => (container' = container /\ invalid' = invalid /\ unusual' = unusual)]_vars

\* A matched line with another status has been read after a bucket was made
C2_Witness ==
    /\ Len(processed) = 2
    /\ Matches(processed[2].rec) /\ int(processed[2].rec.status) # 200
    /\ DOMAIN container # {}
    /\ pc = "running"

\* ------------------------------------------------------------------------
\* C3
\* ------------------------------------------------------------------------
\* C3: a step that reads a matched status-200 line whose timestamp does not
\* parse, or parses to another month than the target, changes no bucket and
\* the run goes on with the next line.
C3_MonthFilterDrops ==
    [][(ReadLine /\ Matches(CurRec) /\ int(CurRec.status) = 200
             /\ (~DateOf(CurRec).ok \/ DateOf(CurRec).month # month))
          => (container' = container /\ pc' = "running")]_vars

\* ------------------------------------------------------------------------
\* C4
\* ------------------------------------------------------------------------
\* What a sink holds for a rejected line: the file's path, then the line
SinkEntry(file_name, rec) ==
    abspath(file_name) \o "\n" \o log_record(rec) \o "\n"

\* C4 as stated: a step that reads a decodable line the line pattern does not
\* match appends the line with its file to a sink, whatever collect_invalid
\* is, and changes no bucket.
C4_NoMatchAlwaysRecorded ==
    [][(ReadLine /\ Decodable(CurRec) /\ ~Matches(CurRec))
          => /\ container' = container
             /\ \/ invalid' = Append(invalid, SinkEntry(CurFile, CurRec))
                \/ unusual' = Append(unusual, SinkEntry(CurFile, CurRec))]_vars

\* C4 amended: a step that reads a decodable line the line pattern does not
\* match changes no bucket and writes nothing to the unusual sink; it appends
\* the line with its file to the invalid sink when collect_invalid is on and
\* writes nothing at all when it is off.
C4_NoMatchRecordedWhenCollecting ==
    [][(ReadLine /\ Decodable(CurRec) /\ ~Matches(CurRec))
          => /\ container' = container
             /\ unusual' = unusual
             /\ collect_invalid
                    => invalid' = Append(invalid, SinkEntry(CurFile, CurRec))
             /\ ~collect_invalid => invalid' = invalid]_vars

\* An unmatched line has been read with collect_invalid off, after a bucket
\* was made: nothing was recorded
C4_Witness ==
    /\ ~collect_invalid
    /\ Len(processed) = 2
    /\ Decodable(processed[2].rec) /\ ~Matches(processed[2].rec)
    /\ DOMAIN container # {}
    /\ invalid = <<>>

\* ------------------------------------------------------------------------
\* C5
\* ------------------------------------------------------------------------
AllZeroReport(r) ==
    /\ r.total_stat = 0 /\ r.route_stat = 0
    /\ r.diagram_stat = 0 /\ r.fare_stat = 0
    /\ \A n \in DOMAIN r.weekday_stat : r.weekday_stat[n] = 0

\* C5: no line aborts the run; the report has not been written while lines
\* are still read and has been written exactly once when the run is over;
\* when no line read was usable the report is all zero.
C5_ReportWrittenOnce ==
    /\ pc # "aborted"
    /\ pc = "running" => json_writes = 0
    /\ pc = "done" => json_writes = 1
    /\ (pc = "done" /\ \A i \in 1..Len(processed) : ~Accepted(processed[i].rec))
           => AllZeroReport(stat_body)

\* ------------------------------------------------------------------------
\* C6
\* ------------------------------------------------------------------------
\* Day of the week of a calendar date by Sakamoto's method: 0 is Sunday
DayOfWeek(y, m, d) ==
    LET t  == <<0, 3, 2, 5, 0, 3, 5, 1, 4, 6, 2, 4>>
        yy == IF m < 3 THEN y - 1 ELSE y
    IN  (yy + (yy \div 4) - (yy \div 100) + (yy \div 400) + t[m] + d) % 7

SundayFirstNames == <<"nichiyoubi", "getsuyoubi", "kayoubi", "suiyoubi",
                      "mokuyoubi", "kinyoubi", "doyoubi">>

\* The name of the calendar weekday of a date key YYYY/MM/DD
TrueWeekdayName(date_str) ==
    SundayFirstNames[DayOfWeek(int(SubSeq(date_str, 1, 4)),
                               int(SubSeq(date_str, 6, 7)),
                               int(SubSeq(date_str, 9, 10))) + 1]

\* C6: every bucket carries the name of the true calendar weekday of its
\* date (the bucket of 2024/02/10, a Saturday, carries doyoubi).
C6_WeekdayNameIsCalendarWeekday ==
    \A k \in DOMAIN container : container[k][2] = TrueWeekdayName(k)

\* ------------------------------------------------------------------------
\* C7
\* ------------------------------------------------------------------------
AddTuples(a, b) == <<a[1] + b[1], a[2] + b[2], a[3] + b[3], a[4] + b[4]>>

RECURSIVE SumOfAccepted(_, _)
\* The component-wise sum of the classification tuples of the first n lines
\* read that were accepted with canonical date d
SumOfAccepted(d, n) ==
    IF n = 0 THEN <<0, 0, 0, 0>>
    ELSE LET rec == processed[n].rec
         IN  IF Accepted(rec) /\ CanonicalDate(rec) = d
             THEN AddTuples(SumOfAccepted(d, n - 1),
                            ExpectedTuple(server_type, split(rec.request, " ")[2]))
             ELSE SumOfAccepted(d, n - 1)

\* C7: under the sp profile the four totals of every bucket are the sums,
\* with multiplicity, of the classification tuples of the lines read so far
\* that have status 200, the target month, an extractable path and the
\* bucket's date.
C7_TotalsAreSumsOfAcceptedLines ==
    server_type = "sp"
        => \A k \in DOMAIN container :
              <<container[k][3], container[k][4], container[k][5], container[k][6]>>
                  = SumOfAccepted(k, Len(processed))

\* The same effective line has been read twice and is counted twice
C7_Witness ==
    /\ server_type = "sp"
    /\ Len(processed) = 2
    /\ processed[1].rec = processed[2].rec
    /\ Accepted(processed[1].rec)
    /\ container[CanonicalDate(processed[1].rec)][3] = 2
    /\ container[CanonicalDate(processed[1].rec)][4] = 2

\* ------------------------------------------------------------------------
\* C8
\* ------------------------------------------------------------------------
RECURSIVE SumField(_, _, _)
\* The sum of field i over the buckets with keys K
SumField(cont, K, i) ==
    IF K = {} THEN 0
    ELSE LET k == CHOOSE x \in K : TRUE
         IN  cont[k][i] + SumField(cont, K \ {k}, i)

WeekdayNames == {"nichiyoubi", "getsuyoubi", "kayoubi", "suiyoubi",
                 "mokuyoubi", "kinyoubi", "doyoubi"}

RECURSIVE SumValues(_, _)
SumValues(f, K) ==
    IF K = {} THEN 0
    ELSE LET k == CHOOSE x \in K : TRUE
         IN  f[k] + SumValues(f, K \ {k})

ReportConsistent(r, cont) ==
    /\ r.total_stat = SumField(cont, DOMAIN cont, 3)
    /\ r.route_stat = SumField(cont, DOMAIN cont, 4)
    /\ r.diagram_stat = SumField(cont, DOMAIN cont, 5)
    /\ r.fare_stat = SumField(cont, DOMAIN cont, 6)
    /\ {r.daily_stat[i][1] : i \in 1..Len(r.daily_stat)} = DOMAIN cont
    /\ Len(r.daily_stat) = Cardinality(DOMAIN cont)
    /\ \A i \in 1..Len(r.daily_stat) :
           r.daily_stat[i][2] = cont[r.daily_stat[i][1]][3]
    /\ DOMAIN r.weekday_stat = WeekdayNames
    /\ SumValues(r.weekday_stat, WeekdayNames) = r.total_stat

\* C8: the report get_fukuoka_result builds from the container is consistent
\* with the buckets (the four totals, daily_stat, the seven weekday keys, the
\* sum of weekday_stat), and so is the report a finished run has written.
C8_ReportConsistentWithBuckets ==
    /\ ReportConsistent(get_fukuoka_result(container), container)
    /\ pc = "done" => ReportConsistent(stat_body, container)

\* A finished run with two buckets, a route hit and a weekday without hits
C8_Witness ==
    /\ pc = "done"
    /\ Cardinality(DOMAIN container) = 2
    /\ stat_body.total_stat = 2
    /\ stat_body.route_stat = 1
    /\ \E n \in WeekdayNames : stat_body.weekday_stat[n] = 0

\* ------------------------------------------------------------------------
\* C9
\* ------------------------------------------------------------------------
RECURSIVE run_lines(_, _)
\* analyzer() on a sequence of lines from the state after construction: the
\* loop body per line while the run is alive, then the report
run_lines(s, lines) ==
    IF s.pc # "running" THEN s
    ELSE IF Len(lines) = 0
    THEN [s EXCEPT !.pc = "done",
                   !.stat_body = get_fukuoka_result(s.container),
                   !.json_writes = s.json_writes + 1]
    ELSE LET b == analyzer_body([container |-> s.container, invalid |-> s.invalid,
                                 unusual |-> s.unusual,
                                 classified |-> NotCalled, pc |-> s.pc],
                                server_type, collect_invalid, month,
                                lines[1].file, lines[1].rec)
         IN  run_lines([s EXCEPT !.container = b.container, !.invalid = b.invalid,
                                 !.unusual = b.unusual, !.pc = b.pc],
                       Tail(lines))

FreshRun ==
    [container |-> <<>>, invalid |-> <<>>, unusual |-> <<>>, pc |-> "running",
     stat_body |-> empty_stat_body, json_writes |-> 0]

Reordered(q) == [i \in 1..Len(processed) |-> processed[q[i]]]

\* C9: under the sp profile a run that is over agrees with the run on every
\* reordering of the lines it read: both finish or both abort, both wrote the
\* report the same number of times, and when they finish their containers
\* and reports are identical.
C9_OrderIndependent ==
    (server_type = "sp" /\ pc # "running")
        => \A q \in Permutations(1..Len(processed)) :
              LET r == run_lines(FreshRun, Reordered(q))
              IN  /\ r.pc = pc
                  /\ r.json_writes = json_writes
                  /\ pc = "done" => /\ r.container = container
                                    /\ r.stat_body = stat_body

\* A finished run that read a later date before an earlier one, and two
\* different lines of one date
C9_Witness ==
    /\ server_type = "sp"
    /\ pc = "done"
    /\ Len(processed) = 2
    /\ Accepted(processed[1].rec) /\ Accepted(processed[2].rec)
    /\ str_lt(CanonicalDate(processed[2].rec), CanonicalDate(processed[1].rec))
    /\ Len(stat_body.daily_stat) = 2
    /\ stat_body.daily_stat[1][1] = CanonicalDate(processed[2].rec)

\* ------------------------------------------------------------------------
\* C10
\* ------------------------------------------------------------------------
DatesSeen == DOMAIN container
                 \cup {CanonicalDate(processed[i].rec) :
                          i \in {j \in 1..Len(processed) : InMonth200(processed[j].rec)}}

\* The number of lines read that the line pattern did not match
NoMatchCount ==
    Cardinality({i \in 1..Len(processed) :
                    Decodable(processed[i].rec) /\ ~Matches(processed[i].rec)})

\* Only unmatched lines reach a sink
OnlyNoMatchDiagnosed ==
    /\ unusual = <<>>
    /\ Len(invalid) = IF collect_invalid THEN NoMatchCount ELSE 0

\* C10 as stated: under the sp profile a bucket exists for a date exactly when
\* a line read had status 200, the target month, that date and a request
\* with a second whitespace-delimited token; lines without one leave no
\* diagnostics entry.
C10_BucketIffSecondToken ==
    server_type = "sp"
        => /\ \A d \in DatesSeen :
                 d \in DOMAIN container
                     <=> \E i \in 1..Len(processed) :
                            /\ InMonth200(processed[i].rec)
                            /\ CanonicalDate(processed[i].rec) = d
                            /\ Len(ws_tokens(processed[i].rec.request)) >= 2
           /\ OnlyNoMatchDiagnosed

\* C10 amended: under the sp profile a bucket exists for a date exactly when
\* a line read had status 200, the target month, that date and a request
\* that contains a space (so that splitting on single spaces yields a
\* second, possibly empty, part), whether or not the line is effective;
\* lines whose request has no space leave no diagnostics entry.
C10_BucketIffSecondPart ==
    server_type = "sp"
        => /\ \A d \in DatesSeen :
                 d \in DOMAIN container
                     <=> \E i \in 1..Len(processed) :
                            /\ InMonth200(processed[i].rec)
                            /\ CanonicalDate(processed[i].rec) = d
                            /\ HasChar(processed[i].rec.request, " ")
           /\ OnlyNoMatchDiagnosed

\* A request without a space was dropped and a path that matches nothing made
\* an all-zero bucket on another date
C10_Witness ==
    /\ server_type = "sp"
    /\ Len(processed) = 2
    /\ InMonth200(processed[1].rec) /\ ~HasChar(processed[1].rec.request, " ")
    /\ Accepted(processed[2].rec)
    /\ Len(ws_tokens(processed[2].rec.request)) >= 2
    /\ DOMAIN container = {CanonicalDate(processed[2].rec)}
    /\ \A k \in DOMAIN container :
           <<container[k][3], container[k][4], container[k][5], container[k][6]>>
               = <<0, 0, 0, 0>>

====
